---- MODULE Spec2Model ----
(***************************************************************************)
(* A state-machine model of src/sparse_matrix.py: the SparseMatrix class   *)
(* (dictionary storage of the non-zero entries with a row index and a      *)
(* column index), its arithmetic, and its text encoding.                   *)
(*                                                                         *)
(* A SparseMatrix object is a record with the fields of the class.  A      *)
(* Python dict is a function whose DOMAIN is the set of its keys.  A       *)
(* method is an operator from the object (and arguments) to a record       *)
(* [exc, self, ...]: the exception it raises ("none" when it returns), the *)
(* object as the call leaves it, and what it returns.                      *)
(***************************************************************************)
EXTENDS Integers, Sequences, FiniteSets, TLC

VARIABLES
    A,        \* a SparseMatrix object (self)
    B,        \* a second SparseMatrix object (other)
    R,        \* the object the last constructor-like call returned, or NoMatrix
    call,     \* the last call made: its name and its arguments
    exc,      \* the exception the last call raised, "none" when it returned
    ret,      \* what the last call returned: <<v>>, or << >> for None
    lastSet,  \* history: coordinate -> value of the last successful set on A
    fs        \* the file system entry at the path given to from_file/to_file

vars == <<A, B, R, call, exc, ret, lastSet, fs>>

(***************************************************************************)
(* Bounds and input sets.                                                  *)
(***************************************************************************)
\* A column count large enough for the sparse branch of add/subtract to be
\* taken by matrices that hold entries (0.01 * 1 * WideCols > 2).
WideCols == 201

\* The element-access machine constructs its matrix with 1..MaxDim rows and
\* columns.
MaxDim == 2

Dims == 1 .. MaxDim

\* The values passed to set.
Values == {-1, 0, 1}

\* The row (column) arguments passed to get and set on a matrix with n rows
\* (columns): -1, 0, 1 and n itself.
Indices(n) == {-1, 0, 1, n}

NoMatrix == [none |-> TRUE]
NoCall == [op |-> "new"]
None == << >>

(***************************************************************************)
(* Python dicts.                                                           *)
(***************************************************************************)
EmptyDict == [k \in {} |-> 0]

\* d[k] = v
DictSet(d, k, v) == [x \in (DOMAIN d) \cup {k} |-> IF x = k THEN v ELSE d[x]]

\* del d[k], for a key that is present
DictDel(d, k) == [x \in (DOMAIN d) \ {k} |-> d[x]]

\* d.get(k, default)
DictGet(d, k, default) == IF k \in DOMAIN d THEN d[k] ELSE default

\* The access d[k] on a defaultdict(dict): a missing key is inserted with an
\* empty dict before it is returned.  This is d after the access.
DefaultDictTouch(d, k) == IF k \in DOMAIN d THEN d ELSE DictSet(d, k, EmptyDict)

\* The one element of a singleton set.  {F(x) : x \in {e}} evaluates e once
\* and binds x to its value; the loops below bind what they pass on this way.
Only(S) == CHOOSE x \in S : TRUE

(***************************************************************************)
(* SparseMatrix.__init__                                                   *)
(***************************************************************************)
Fields(rows, cols) ==
    [rows |-> rows, cols |-> cols,
     elements |-> EmptyDict, row_map |-> EmptyDict, col_map |-> EmptyDict,
     num_nonzero |-> 0, last_operation_time |-> 0]

SparseMatrix(rows, cols) ==
    IF rows <= 0 \/ cols <= 0
    THEN [exc |-> "ValueError"]
    ELSE [exc |-> "none", self |-> Fields(rows, cols)]

\* A bounds test that admits row == rows and col == cols.
InBoundsInclusive(self, row, col) ==
    0 <= row /\ row <= self.rows /\ 0 <= col /\ col <= self.cols

InBounds(self, row, col) ==
    0 <= row /\ row < self.rows /\ 0 <= col /\ col < self.cols

(***************************************************************************)
(* SparseMatrix.set                                                        *)
(***************************************************************************)
\* value == 0 and the entry is stored: remove it from the three mappings and
\* drop the inner dicts that became empty.  A del of a missing key raises
\* KeyError and leaves the statements before it done.
SetDeleteKeepsEmptyDicts(self, row, col) ==
    LET s1 == [self EXCEPT !.elements = DictDel(@, <<row, col>>)]
        s3 == [s1 EXCEPT !.row_map[row] = DictDel(@, col)]
        s5 == [s3 EXCEPT !.col_map[col] = DictDel(@, row)]
    IN  [exc |-> "none", self |-> [s5 EXCEPT !.num_nonzero = @ - 1]]

SetDelete(self, row, col) ==
    LET s1 == [self EXCEPT !.elements = DictDel(@, <<row, col>>)]
        s2 == [s1 EXCEPT !.row_map = DefaultDictTouch(@, row)]
    IN  IF col \notin DOMAIN s2.row_map[row]
        THEN [exc |-> "KeyError", self |-> s2]
        ELSE
        LET s3 == [s2 EXCEPT !.row_map[row] = DictDel(@, col)]
            s4 == [s3 EXCEPT !.col_map = DefaultDictTouch(@, col)]
        IN  IF row \notin DOMAIN s4.col_map[col]
            THEN [exc |-> "KeyError", self |-> s4]
            ELSE
            LET s5 == [s4 EXCEPT !.col_map[col] = DictDel(@, row)]
                s6 == IF DOMAIN s5.row_map[row] = {}
                      THEN [s5 EXCEPT !.row_map = DictDel(@, row)] ELSE s5
                s7 == IF DOMAIN s6.col_map[col] = {}
                      THEN [s6 EXCEPT !.col_map = DictDel(@, col)] ELSE s6
            IN  [exc |-> "none",
                 self |-> [s7 EXCEPT !.num_nonzero = @ - 1]]

\* A store that leaves an entry already in elements as it is.
SetStoreInsertOnly(self, row, col, value) ==
    IF <<row, col>> \in DOMAIN self.elements
    THEN [exc |-> "none", self |-> self]
    ELSE LET s1 == [self EXCEPT !.num_nonzero = @ + 1]
             s2 == [s1 EXCEPT !.elements = DictSet(@, <<row, col>>, value)]
             s3 == [s2 EXCEPT !.row_map = DefaultDictTouch(@, row)]
             s4 == [s3 EXCEPT !.row_map[row] = DictSet(@, col, value)]
             s5 == [s4 EXCEPT !.col_map = DefaultDictTouch(@, col)]
             s6 == [s5 EXCEPT !.col_map[col] = DictSet(@, row, value)]
         IN  [exc |-> "none", self |-> s6]

\* A store that counts every store, also the overwrite of a stored entry.
SetStoreCountsOverwrite(self, row, col, value) ==
    LET s1 == [self EXCEPT !.num_nonzero = @ + 1]
        s2 == [s1 EXCEPT !.elements = DictSet(@, <<row, col>>, value)]
        s3 == [s2 EXCEPT !.row_map = DefaultDictTouch(@, row)]
        s4 == [s3 EXCEPT !.row_map[row] = DictSet(@, col, value)]
        s5 == [s4 EXCEPT !.col_map = DefaultDictTouch(@, col)]
        s6 == [s5 EXCEPT !.col_map[col] = DictSet(@, row, value)]
    IN  [exc |-> "none", self |-> s6]

\* value != 0: count a new entry, then write the three mappings.
SetStore(self, row, col, value) ==
    LET s1 == IF <<row, col>> \notin DOMAIN self.elements
              THEN [self EXCEPT !.num_nonzero = @ + 1] ELSE self
        s2 == [s1 EXCEPT !.elements = DictSet(@, <<row, col>>, value)]
        s3 == [s2 EXCEPT !.row_map = DefaultDictTouch(@, row)]
        s4 == [s3 EXCEPT !.row_map[row] = DictSet(@, col, value)]
        s5 == [s4 EXCEPT !.col_map = DefaultDictTouch(@, col)]
        s6 == [s5 EXCEPT !.col_map[col] = DictSet(@, row, value)]
    IN  [exc |-> "none", self |-> s6]

set(self, row, col, value) ==
    IF ~InBounds(self, row, col)
    THEN [exc |-> "IndexError", self |-> self]
    ELSE IF value = 0
         THEN IF <<row, col>> \in DOMAIN self.elements
              THEN SetDelete(self, row, col)
              ELSE [exc |-> "none", self |-> self]
         ELSE SetStore(self, row, col, value)

(***************************************************************************)
(* SparseMatrix.get                                                        *)
(***************************************************************************)
get(self, row, col) ==
    IF ~InBounds(self, row, col)
    THEN [exc |-> "IndexError", self |-> self]
    ELSE [exc |-> "none", self |-> self,
          val |-> DictGet(self.elements, <<row, col>>, 0)]

(***************************************************************************)
(* Text.  A str is a sequence of one-character strings; a text file is the *)
(* sequence of its lines, each with its line terminator.                   *)
(***************************************************************************)
Digits == <<"0", "1", "2", "3", "4", "5", "6", "7", "8", "9">>

Whitespace == {" ", "\t", "\n", "\r"}

DigitValue(ch) == (CHOOSE i \in 1 .. 10 : Digits[i] = ch) - 1

IsDigit(ch) == \E i \in 1 .. 10 : Digits[i] = ch

\* str(n) for n >= 0
RECURSIVE NatStr(_)
NatStr(n) ==
    IF n < 10 THEN <<Digits[n + 1]>>
    ELSE NatStr(n \div 10) \o <<Digits[(n % 10) + 1]>>

\* str(n), as an f-string formats an int
IntStr(n) == IF n < 0 THEN <<"-">> \o NatStr(-n) ELSE NatStr(n)

\* s.strip()
Strip(s) ==
    LET keep == {i \in 1 .. Len(s) : s[i] \notin Whitespace}
    IN  IF keep = {} THEN << >>
        ELSE SubSeq(s, CHOOSE i \in keep : \A j \in keep : i <= j,
                       CHOOSE i \in keep : \A j \in keep : j <= i)

\* s.startswith(prefix)
StartsWith(s, prefix) ==
    Len(s) >= Len(prefix) /\ SubSeq(s, 1, Len(prefix)) = prefix

\* s.endswith(suffix)
EndsWith(s, suffix) ==
    Len(s) >= Len(suffix)
    /\ SubSeq(s, Len(s) - Len(suffix) + 1, Len(s)) = suffix

\* s.split(sep) for a one-character sep: the fields between the separators
Split(s, sep) ==
    LET at == {i \in 1 .. Len(s) : s[i] = sep}
        n == Cardinality(at)
        cut(j) == IF j = 0 THEN 0
                  ELSE IF j = n + 1 THEN Len(s) + 1
                  ELSE CHOOSE i \in at : Cardinality({q \in at : q < i}) = j - 1
    IN  [j \in 1 .. n + 1 |-> SubSeq(s, cut(j - 1) + 1, cut(j) - 1)]

\* The value of a run of digits and single underscores between digits.
RECURSIVE DigitsValue(_)
DigitsValue(ds) ==
    IF ds = << >> THEN 0
    ELSE IF ds[Len(ds)] = "_" THEN DigitsValue(SubSeq(ds, 1, Len(ds) - 1))
    ELSE 10 * DigitsValue(SubSeq(ds, 1, Len(ds) - 1)) + DigitValue(ds[Len(ds)])

\* int(s): surrounding whitespace is dropped, then an optional sign and a
\* run of digits, which may hold single underscores between digits;
\* anything else raises ValueError.
int(s) ==
    LET t == Strip(s)
        signed == t # << >> /\ t[1] \in {"+", "-"}
        ds == IF signed THEN SubSeq(t, 2, Len(t)) ELSE t
        wellFormed ==
            /\ ds # << >>
            /\ \A i \in 1 .. Len(ds) : IsDigit(ds[i]) \/ ds[i] = "_"
            /\ IsDigit(ds[1]) /\ IsDigit(ds[Len(ds)])
            /\ \A i \in 1 .. Len(ds) - 1 : ~(ds[i] = "_" /\ ds[i + 1] = "_")
    IN  IF ~wellFormed THEN [exc |-> "ValueError"]
        ELSE [exc |-> "none",
              val |-> IF signed /\ t[1] = "-" THEN 0 - DigitsValue(ds)
                      ELSE DigitsValue(ds)]

(***************************************************************************)
(* SparseMatrix.to_file                                                    *)
(***************************************************************************)
\* Python's order on the items ((r, c), v) of elements, here <<r, c, v>>.
ItemLess(a, b) ==
    \/ a[1] < b[1]
    \/ a[1] = b[1] /\ a[2] < b[2]
    \/ a[1] = b[1] /\ a[2] = b[2] /\ a[3] < b[3]

\* The items written in the order the dict yields them.
unsorted(items) == items

\* sorted(items), for items that differ from one another: the item at
\* position i has i - 1 items below it.
sorted(items) ==
    LET all == {items[i] : i \in 1 .. Len(items)}
    IN  [i \in 1 .. Len(items) |->
           CHOOSE e \in all : Cardinality({f \in all : ItemLess(f, e)}) = i - 1]

\* f"rows={self.rows}\n" and f"cols={self.cols}\n"
HeaderLine(key, n) == key \o <<"=">> \o IntStr(n) \o <<"\n">>

\* f"({r}, {c}, {v})\n"
EntryLine(e) ==
    <<"(">> \o IntStr(e[1]) \o <<",", " ">> \o IntStr(e[2]) \o <<",", " ">>
            \o IntStr(e[3]) \o <<")", "\n">>

\* What to_file writes; items is self.elements.items() in the dict's order.
FileLines(self, items) ==
    <<HeaderLine(<<"r", "o", "w", "s">>, self.rows),
      HeaderLine(<<"c", "o", "l", "s">>, self.cols)>>
    \o [i \in 1 .. Len(items) |-> EntryLine(sorted(items)[i])]

\* open(filepath, 'w'): the exception it raises on the entry at the path.
OpenWrite(f) ==
    CASE f.kind = "denied" -> "PermissionError"
      [] f.kind = "directory" -> "IsADirectoryError"
      [] OTHER -> "none"

\* to_file: an open failure propagates; otherwise the file holds the lines.
to_file(self, f, items) ==
    IF OpenWrite(f) # "none" THEN [exc |-> OpenWrite(f), fs |-> f]
    ELSE [exc |-> "none",
          fs |-> [kind |-> "file", tag |-> "written",
                  lines |-> FileLines(self, items)]]

(***************************************************************************)
(* SparseMatrix.from_file                                                  *)
(***************************************************************************)
\* open(filepath, 'r'): the exception it raises on the entry at the path.
OpenRead(f) ==
    CASE f.kind = "missing" -> "FileNotFoundError"
      [] f.kind = "denied" -> "PermissionError"
      [] f.kind = "directory" -> "IsADirectoryError"
      [] OTHER -> "none"

\* [line.strip() for line in file if line.strip()]
NonBlankLines(raw) ==
    LET keep == {i \in 1 .. Len(raw) : Strip(raw[i]) # << >>}
    IN  [j \in 1 .. Cardinality(keep) |->
           Strip(raw[CHOOSE i \in keep : Cardinality({q \in keep : q < i}) = j - 1])]

\* One entry line: the bracket test, the split in three, the three ints.
ParseEntry(line) ==
    IF ~(StartsWith(line, <<"(">>) /\ EndsWith(line, <<")">>))
    THEN [exc |-> "ValueError"]
    ELSE LET content == Split(SubSeq(line, 2, Len(line) - 1), ",")
         IN  IF Len(content) # 3 THEN [exc |-> "ValueError"]
             ELSE IF \E i \in 1 .. 3 : int(Strip(content[i])).exc # "none"
                  THEN [exc |-> "ValueError"]
                  ELSE [exc |-> "none",
                        r |-> int(Strip(content[1])).val,
                        c |-> int(Strip(content[2])).val,
                        v |-> int(Strip(content[3])).val]

\* for i, line in enumerate(lines[2:], start=3): ... matrix.set(r, c, v)
RECURSIVE ParseEntries(_, _, _)
ParseEntries(matrix, lines, i) ==
    IF i > Len(lines) THEN [exc |-> "none", self |-> matrix]
    ELSE Only({ IF e.exc # "none" THEN [exc |-> e.exc, self |-> matrix]
                ELSE Only({ IF r.exc # "none" THEN r
                            ELSE ParseEntries(r.self, lines, next) :
                            r \in {set(matrix, e.r, e.c, e.v)},
                            next \in {i + 1} }) :
                e \in {ParseEntry(lines[i])} })

\* The body of the with statement, on the raw lines of the opened file.
ParseFile(raw) ==
    LET lines == NonBlankLines(raw) IN
    IF Len(lines) < 2 THEN [exc |-> "ValueError"]
    ELSE IF ~StartsWith(lines[1], <<"r", "o", "w", "s", "=">>)
         THEN [exc |-> "ValueError"]
    ELSE IF ~StartsWith(lines[2], <<"c", "o", "l", "s", "=">>)
         THEN [exc |-> "ValueError"]
    ELSE LET rows == int(Split(lines[1], "=")[2])
             cols == int(Split(lines[2], "=")[2])
         IN  IF rows.exc # "none" \/ cols.exc # "none"
             THEN [exc |-> "ValueError"]
             ELSE IF SparseMatrix(rows.val, cols.val).exc # "none"
                  THEN [exc |-> SparseMatrix(rows.val, cols.val).exc]
                  ELSE ParseEntries(SparseMatrix(rows.val, cols.val).self,
                                    lines, 3)

\* An except clause that lets every exception through as it is.
FromFileExceptReraise(e) == e

\* except FileNotFoundError: raise FileNotFoundError(...)
\* except Exception as e: a ValueError is re-raised, anything else is
\* raised as ValueError.
FromFileExcept(e) ==
    IF e = "FileNotFoundError" THEN "FileNotFoundError"
    ELSE IF e = "ValueError" THEN "ValueError"
    ELSE "ValueError"

from_file(f) ==
    IF OpenRead(f) # "none" THEN [exc |-> FromFileExcept(OpenRead(f))]
    ELSE Only({ IF r.exc # "none" THEN [exc |-> FromFileExcept(r.exc)]
                ELSE [exc |-> "none", result |-> r.self] :
                r \in {ParseFile(f.lines)} })

(***************************************************************************)
(* The element-access machine: one matrix A, any sequence of set and get   *)
(* calls, in bounds or not.                                                *)
(***************************************************************************)
NoFile == [kind |-> "missing"]

Init ==
    /\ \E rows \in Dims, cols \in Dims : A = SparseMatrix(rows, cols).self
    /\ B = NoMatrix
    /\ R = NoMatrix
    /\ call = NoCall
    /\ exc = "none"
    /\ ret = None
    /\ lastSet = EmptyDict
    /\ fs = NoFile

\* A.set(row, col, value).  call.old is history: the value stored at the
\* coordinate before the call (0 when nothing is stored there).
Set(row, col, value) ==
    \E r \in {set(A, row, col, value)} :
    /\ A' = r.self
    /\ exc' = r.exc
    /\ ret' = None
    /\ call' = [op |-> "set", row |-> row, col |-> col, value |-> value,
                old |-> DictGet(A.elements, <<row, col>>, 0)]
    /\ lastSet' = IF r.exc = "none"
                  THEN DictSet(lastSet, <<row, col>>, value) ELSE lastSet
    /\ UNCHANGED <<B, R, fs>>

\* A.get(row, col)
Get(row, col) ==
    \E r \in {get(A, row, col)} :
    /\ A' = r.self
    /\ exc' = r.exc
    /\ ret' = IF r.exc = "none" THEN <<r.val>> ELSE None
    /\ call' = [op |-> "get", row |-> row, col |-> col]
    /\ UNCHANGED <<B, R, lastSet, fs>>

SetCall == \E row \in Indices(A.rows), col \in Indices(A.cols), value \in Values :
               Set(row, col, value)

GetCall == \E row \in Indices(A.rows), col \in Indices(A.cols) : Get(row, col)

Next == SetCall \/ GetCall

Spec == Init /\ [][Next]_vars

(***************************************************************************)
(* SparseMatrix.add and SparseMatrix.subtract                              *)
(*                                                                         *)
(* sign is 1 for add and -1 for subtract, the one difference between the   *)
(* two methods.  elapsed is time.time() - start_time.  A loop over a dict  *)
(* visits each key once; the order it does so in is not modelled, the      *)
(* loops here take the keys in some fixed order.                           *)
(***************************************************************************)
\* num_nonzero + other.num_nonzero < 0.01 * rows * cols.  The product is a
\* float; the comparison with an integer equals the exact one whenever
\* rows * cols is not a multiple of 100, as for every shape constructed here.
SparseBranch(self, other) ==
    100 * (self.num_nonzero + other.num_nonzero) < self.rows * self.cols

\* for (r, c), v in src.items(): result.set(r, c, v)
RECURSIVE CopyEntries(_, _, _)
CopyEntries(result, src, keys) ==
    IF keys = {} THEN [exc |-> "none", self |-> result]
    ELSE Only({ Only({ IF r.exc # "none" THEN r
                       ELSE CopyEntries(r.self, src, rest) :
                       r \in {set(result, k[1], k[2], src[k])},
                       rest \in {keys \ {k}} }) :
                k \in {CHOOSE x \in keys : TRUE} })

\* A fold that skips the set when the folded value is 0.
RECURSIVE FoldEntriesSkipZero(_, _, _, _)
FoldEntriesSkipZero(result, src, keys, sign) ==
    IF keys = {} THEN [exc |-> "none", self |-> result]
    ELSE Only({ Only({
           IF g.exc # "none" THEN [exc |-> g.exc, self |-> res]
           ELSE IF g.val + sign * src[k] = 0
                THEN FoldEntriesSkipZero(res, src, rest, sign)
                ELSE Only({ IF r.exc # "none" THEN r
                            ELSE FoldEntriesSkipZero(r.self, src, rest, sign) :
                            r \in {set(res, k[1], k[2], g.val + sign * src[k])} }) :
           g \in {get(res, k[1], k[2])}, rest \in {keys \ {k}} }) :
         k \in {CHOOSE x \in keys : TRUE}, res \in {result} })

\* for (r, c), v in src.items():
\*     new_val = result.get(r, c) +/- v; result.set(r, c, new_val)
RECURSIVE FoldEntries(_, _, _, _)
FoldEntries(result, src, keys, sign) ==
    IF keys = {} THEN [exc |-> "none", self |-> result]
    ELSE Only({ Only({
           IF g.exc # "none" THEN [exc |-> g.exc, self |-> res]
           ELSE Only({ IF r.exc # "none" THEN r
                       ELSE FoldEntries(r.self, src, rest, sign) :
                       r \in {set(res, k[1], k[2], g.val + sign * src[k])} }) :
           g \in {get(res, k[1], k[2])}, rest \in {keys \ {k}} }) :
         k \in {CHOOSE x \in keys : TRUE}, res \in {result} })

\* Method 1: seed the result with self's entries, fold other's entries in.
CombineSparse(self, other, sign) ==
    Only({ IF seeded.exc # "none" THEN seeded
           ELSE FoldEntries(seeded.self, other.elements,
                            DOMAIN other.elements, sign) :
           seeded \in {CopyEntries(Fields(self.rows, self.cols),
                                   self.elements, DOMAIN self.elements)} })

\* for r, c in positions:
\*     val = self.get(r, c) +/- other.get(r, c)
\*     if val != 0: result.set(r, c, val)
RECURSIVE UnionEntries(_, _, _, _, _)
UnionEntries(result, self, other, positions, sign) ==
    IF positions = {} THEN [exc |-> "none", self |-> result]
    ELSE Only({ Only({
           IF a.exc # "none" THEN [exc |-> a.exc, self |-> res]
           ELSE IF b.exc # "none" THEN [exc |-> b.exc, self |-> res]
           ELSE IF a.val + sign * b.val = 0
                THEN UnionEntries(res, self, other, rest, sign)
                ELSE Only({ IF r.exc # "none" THEN r
                            ELSE UnionEntries(r.self, self, other, rest, sign) :
                            r \in {set(res, k[1], k[2], a.val + sign * b.val)} }) :
           a \in {get(self, k[1], k[2])}, b \in {get(other, k[1], k[2])},
           rest \in {positions \ {k}} }) :
         k \in {CHOOSE x \in positions : TRUE}, res \in {result} })

\* Method 2: visit the union of the two key sets.
CombineDense(self, other, sign) ==
    UnionEntries(Fields(self.rows, self.cols), self, other,
                 (DOMAIN self.elements) \cup (DOMAIN other.elements), sign)

\* The body shared by add and subtract.  An exception leaves self as it
\* was; a return writes self._last_operation_time.
Combine(self, other, sign, elapsed) ==
    IF self.rows # other.rows \/ self.cols # other.cols
    THEN [exc |-> "ValueError", self |-> self]
    ELSE Only({ IF r.exc # "none" THEN [exc |-> r.exc, self |-> self]
                ELSE [exc |-> "none",
                      self |-> [self EXCEPT !.last_operation_time = elapsed],
                      result |-> r.self] :
                r \in {IF SparseBranch(self, other)
                       THEN CombineSparse(self, other, sign)
                       ELSE CombineDense(self, other, sign)} })

add(self, other, elapsed) == Combine(self, other, 1, elapsed)

subtract(self, other, elapsed) == Combine(self, other, -1, elapsed)

(***************************************************************************)
(* SparseMatrix.multiply                                                   *)
(***************************************************************************)
\* value = v1 * v2 in place of value += v1 * v2: the last matching term.
DotProductNoAccumulate(row_data, other, col_idx, keys) ==
    LET match == {k \in keys : k \in DOMAIN other.row_map
                               /\ col_idx \in DOMAIN other.row_map[k]}
    IN  IF match = {} THEN 0
        ELSE LET k == CHOOSE x \in match : \A y \in match : y <= x
             IN  row_data[k] * other.row_map[k][col_idx]

\* value = 0
\* for k, v1 in row_data.items():
\*     if k in other.row_map and col_idx in other.row_map[k]:
\*         value += v1 * other.row_map[k][col_idx]
RECURSIVE DotProduct(_, _, _, _)
DotProduct(row_data, other, col_idx, keys) ==
    IF keys = {} THEN 0
    ELSE Only({ Only({ IF k \in DOMAIN other.row_map
                          /\ col_idx \in DOMAIN other.row_map[k]
                       THEN row_data[k] * other.row_map[k][col_idx] + rest
                       ELSE rest :
                       rest \in {DotProduct(row_data, other, col_idx,
                                            keys \ {k})} }) :
                k \in {CHOOSE x \in keys : TRUE} })

\* for row_idx in self.row_map: for col_idx in other.col_map:
\*     if value != 0: result.set(row_idx, col_idx, value)
\* cells is the set of (row_idx, col_idx) pairs still to visit.
RECURSIVE MultiplyCells(_, _, _, _)
MultiplyCells(result, self, other, cells) ==
    IF cells = {} THEN [exc |-> "none", self |-> result]
    ELSE Only({ Only({
           IF value = 0 THEN MultiplyCells(res, self, other, rest)
           ELSE Only({ IF r.exc # "none" THEN r
                       ELSE MultiplyCells(r.self, self, other, rest) :
                       r \in {set(res, cell[1], cell[2], value)} }) :
           value \in {DotProduct(self.row_map[cell[1]], other, cell[2],
                                 DOMAIN self.row_map[cell[1]])},
           rest \in {cells \ {cell}} }) :
         cell \in {CHOOSE x \in cells : TRUE}, res \in {result} })

multiply(self, other, elapsed) ==
    IF self.cols # other.rows
    THEN [exc |-> "ValueError", self |-> self]
    ELSE Only({ IF r.exc # "none" THEN [exc |-> r.exc, self |-> self]
                ELSE [exc |-> "none",
                      self |-> [self EXCEPT !.last_operation_time = elapsed],
                      result |-> r.self] :
                r \in {MultiplyCells(Fields(self.rows, other.cols), self, other,
                         (DOMAIN self.row_map) \X (DOMAIN other.col_map))} })

(***************************************************************************)
(* The arithmetic machine: two matrices A and B filled by in-bounds set    *)
(* calls, and add, subtract and multiply called on (A, B) and on (A, A).   *)
(* R holds the result of the last such call until an operand is set again. *)
(***************************************************************************)
\* The shapes A and B are constructed with.
ArithShapes ==
    { <<<<2, 2>>, <<2, 1>>>>,
      <<<<1, 2>>, <<2, 2>>>>,
      <<<<1, WideCols>>, <<1, WideCols>>>> }

\* time.time() - start_time: the clock did not advance, or it did.
Elapsed == {0, 1}

ArithOps == {"add", "subtract", "multiply"}

InitArith ==
    /\ \E s \in ArithShapes :
          /\ A = SparseMatrix(s[1][1], s[1][2]).self
          /\ B = SparseMatrix(s[2][1], s[2][2]).self
    /\ R = NoMatrix
    /\ call = NoCall
    /\ exc = "none"
    /\ ret = None
    /\ lastSet = EmptyDict
    /\ fs = NoFile

\* The in-bounds row (column) arguments of the arithmetic machine.
Cells(m) == {k \in {0, 1} \X {0, 1} : InBounds(m, k[1], k[2])}

SetA ==
    \E k \in Cells(A), value \in Values :
       /\ \E r \in {set(A, k[1], k[2], value)} : A' = r.self /\ exc' = r.exc
       /\ call' = [op |-> "set", self |-> "A"]
       /\ R' = NoMatrix
       /\ UNCHANGED <<B, ret, lastSet, fs>>

SetB ==
    \E k \in Cells(B), value \in Values :
       /\ \E r \in {set(B, k[1], k[2], value)} : B' = r.self /\ exc' = r.exc
       /\ call' = [op |-> "set", self |-> "B"]
       /\ R' = NoMatrix
       /\ UNCHANGED <<A, ret, lastSet, fs>>

Method(op, self, other, elapsed) ==
    CASE op = "add" -> add(self, other, elapsed)
      [] op = "subtract" -> subtract(self, other, elapsed)
      [] op = "multiply" -> multiply(self, other, elapsed)

\* A.op(B): self is A and other is B, two objects.
CallAB(op, elapsed) ==
    \E r \in {Method(op, A, B, elapsed)} :
    /\ A' = r.self
    /\ B' = B
    /\ exc' = r.exc
    /\ R' = IF r.exc = "none" THEN r.result ELSE NoMatrix
    /\ call' = [op |-> op, self |-> "A", other |-> "B"]
    /\ UNCHANGED <<ret, lastSet, fs>>

\* A.op(A): self and other are the one object A.
CallAA(op, elapsed) ==
    \E r \in {Method(op, A, A, elapsed)} :
    /\ A' = r.self
    /\ B' = B
    /\ exc' = r.exc
    /\ R' = IF r.exc = "none" THEN r.result ELSE NoMatrix
    /\ call' = [op |-> op, self |-> "A", other |-> "A"]
    /\ UNCHANGED <<ret, lastSet, fs>>

Arith == \E op \in ArithOps, elapsed \in Elapsed : CallAB(op, elapsed)

ArithSelf == \E op \in ArithOps, elapsed \in Elapsed : CallAA(op, elapsed)

NextArith == SetA \/ SetB \/ Arith \/ ArithSelf

SpecArith == InitArith /\ [][NextArith]_vars

(***************************************************************************)
(* Properties of the element-access machine.                               *)
(***************************************************************************)
\* The entries (row, col, value) each of the three mappings holds.
ElementEntries(m) == {<<k[1], k[2], m.elements[k]>> : k \in DOMAIN m.elements}

RowMapEntries(m) ==
    UNION {{<<r, c, m.row_map[r][c]>> : c \in DOMAIN m.row_map[r]} :
           r \in DOMAIN m.row_map}

ColMapEntries(m) ==
    UNION {{<<r, c, m.col_map[c][r]>> : r \in DOMAIN m.col_map[c]} :
           c \in DOMAIN m.col_map}

I1(m) == \A k \in DOMAIN m.elements : m.elements[k] # 0

I2(m) == /\ ElementEntries(m) = RowMapEntries(m)
         /\ ElementEntries(m) = ColMapEntries(m)

I3(m) == /\ \A r \in DOMAIN m.row_map : DOMAIN m.row_map[r] # {}
         /\ \A c \in DOMAIN m.col_map : DOMAIN m.col_map[c] # {}

\* C1: after any sequence of set and get calls, in bounds or rejected, no
\* entry of elements is 0 (I1), elements, row_map and col_map hold the same
\* entries (I2), and no key of row_map or col_map maps to an empty dict (I3).
C1_SparsityInvariant == I1(A) /\ I2(A) /\ I3(A)

\* A set to 0 has deleted the last entry of a row while its column keeps
\* another entry: the row key is gone, the column key stays.
C1_Witness ==
    /\ call.op = "set" /\ exc = "none" /\ call.value = 0 /\ call.old # 0
    /\ call.row \notin DOMAIN A.row_map
    /\ call.col \in DOMAIN A.col_map

\* C2: for every in-bounds coordinate, get returns the value of the most
\* recent successful set at that coordinate, and 0 when it was never set
\* (or last set to 0); the value the last get call returned is that value.
C2_AccessCorrectness ==
    /\ \A r \in 0 .. A.rows - 1, c \in 0 .. A.cols - 1 :
           /\ get(A, r, c).exc = "none"
           /\ get(A, r, c).val = DictGet(lastSet, <<r, c>>, 0)
    /\ (call.op = "get" /\ exc = "none") =>
           ret = <<DictGet(lastSet, <<call.row, call.col>>, 0)>>

\* A get returned the value of an overwriting set, another coordinate was
\* set to 0 after being non-zero, and a third was never set.
C2_Witness ==
    /\ call.op = "get" /\ exc = "none" /\ ret = <<-1>>
    /\ \E k \in DOMAIN lastSet : lastSet[k] = 0 /\ k # <<call.row, call.col>>
    /\ \E r \in 0 .. A.rows - 1, c \in 0 .. A.cols - 1 :
           <<r, c>> \notin DOMAIN lastSet
    /\ A.num_nonzero = 2

\* C3: get and set raise IndexError exactly when row is outside [0, rows)
\* or col is outside [0, cols), and raise nothing else; a rejected set
\* leaves the object as it was, whatever the value.
C3_OutOfBounds ==
    \/ call.op \notin {"set", "get"}
    \/ /\ exc \in {"none", "IndexError"}
       /\ exc = "IndexError" <=>
             (call.row < 0 \/ call.row >= A.rows \/
              call.col < 0 \/ call.col >= A.cols)

C3_RejectedSetFrame ==
    [][(call'.op = "set" /\ exc' = "IndexError") =>
          (A' = A /\ lastSet' = lastSet)]_vars

C3_BoundsRejection == []C3_OutOfBounds /\ C3_RejectedSetFrame

\* set(rows, 0, 0) was rejected on a matrix that holds entries.
C3_Witness ==
    /\ call.op = "set" /\ exc = "IndexError"
    /\ call.row = A.rows /\ call.col = 0 /\ call.value = 0
    /\ A.num_nonzero > 0

(***************************************************************************)
(* Properties of the arithmetic machine.                                   *)
(***************************************************************************)
\* The object an operand name of the last call stands for.
Operand(name) == IF name = "A" THEN A ELSE B

\* The dict of the non-zero values self.get(r, c) + sign * other.get(r, c)
\* over all the cells of self's shape.
CellwiseSum(self, other, sign) ==
    LET v(k) == get(self, k[1], k[2]).val + sign * get(other, k[1], k[2]).val
    IN  [k \in {x \in (0 .. self.rows - 1) \X (0 .. self.cols - 1) : v(x) # 0}
           |-> v(k)]

SameShape(m, n) == m.rows = n.rows /\ m.cols = n.cols

\* The two strategies of add/subtract end alike on self and other.
BranchesAgree(self, other) ==
    SameShape(self, other) =>
       \A sign \in {1, -1} :
          /\ CombineSparse(self, other, sign) = CombineDense(self, other, sign)
          /\ CombineSparse(self, other, sign).exc = "none"

\* C4: add (subtract) of two matrices of equal shape returns a matrix of
\* that shape whose elements are exactly the non-zero cell-wise sums
\* (differences), with consistent row_map, col_map and num_nonzero; and the
\* fold-in strategy and the union strategy give identical matrices, so the
\* threshold that picks one does not show in the result.
C4_AddSubtract ==
    /\ (call.op \in {"add", "subtract"} /\ exc = "none") =>
          LET self == Operand(call.self)
              other == Operand(call.other)
              sign == IF call.op = "add" THEN 1 ELSE -1
          IN  /\ SameShape(R, self)
              /\ R.elements = CellwiseSum(self, other, sign)
              /\ I1(R) /\ I2(R) /\ I3(R)
              /\ R.num_nonzero = Cardinality(DOMAIN R.elements)
    /\ BranchesAgree(A, B) /\ BranchesAgree(B, A) /\ BranchesAgree(A, A)

\* A.add(B) took the fold-in branch with one entry in each operand, and the
\* two entries cancelled: the result stores nothing.
C4_Witness ==
    /\ call.op = "add" /\ call.other = "B" /\ exc = "none"
    /\ SparseBranch(A, B)
    /\ A.num_nonzero = 1 /\ B.num_nonzero = 1
    /\ R.num_nonzero = 0

\* The brute-force dense dot product: the sum over k in [0, n) of
\* self.get(i, k) * other.get(k, j), for k below n.
RECURSIVE DenseDot(_, _, _, _, _)
DenseDot(self, other, i, j, n) ==
    IF n = 0 THEN 0
    ELSE get(self, i, n - 1).val * get(other, n - 1, j).val
         + DenseDot(self, other, i, j, n - 1)

\* The sum of a function's values over a set of its arguments.
RECURSIVE SumOver(_, _)
SumOver(f, S) ==
    IF S = {} THEN 0
    ELSE LET k == CHOOSE x \in S : TRUE IN f[k] + SumOver(f, S \ {k})

\* The dot product over the keys that self's row i and other's column j share.
IntersectionDot(self, other, i, j) ==
    LET K == (DOMAIN self.row_map[i]) \cap (DOMAIN other.col_map[j])
    IN  SumOver([k \in K |-> self.row_map[i][k] * other.col_map[j][k]], K)

\* C5: multiply of an m x n by an n x p matrix returns an m x p matrix that
\* agrees at every cell with the brute-force dense product; a cell whose dot
\* product is 0 is not stored, rows of self and columns of other without
\* entries give no stored entries, and the sum the code forms through
\* other's row_map is the sum over the keys shared by self's row and other's
\* column.
C5_Multiply ==
    (call.op = "multiply" /\ exc = "none") =>
       LET self == Operand(call.self)
           other == Operand(call.other)
       IN  /\ R.rows = self.rows /\ R.cols = other.cols
           /\ \A i \in 0 .. R.rows - 1, j \in 0 .. R.cols - 1 :
                 /\ get(R, i, j).val = DenseDot(self, other, i, j, self.cols)
                 /\ <<i, j>> \in DOMAIN R.elements <=>
                       DenseDot(self, other, i, j, self.cols) # 0
           /\ I1(R) /\ I2(R) /\ I3(R)
           /\ DOMAIN R.row_map \subseteq DOMAIN self.row_map
           /\ DOMAIN R.col_map \subseteq DOMAIN other.col_map
           /\ \A i \in DOMAIN self.row_map, j \in DOMAIN other.col_map :
                 DotProduct(self.row_map[i], other, j, DOMAIN self.row_map[i])
                    = IntersectionDot(self, other, i, j)

\* A.multiply(B) met a cell whose two non-zero terms cancel, which the
\* result does not store, next to cells it does store.
C5_Witness ==
    /\ call.op = "multiply" /\ call.other = "B" /\ exc = "none"
    /\ R.num_nonzero > 0
    /\ \E i \in DOMAIN A.row_map, j \in DOMAIN B.col_map :
          /\ Cardinality((DOMAIN A.row_map[i]) \cap (DOMAIN B.col_map[j])) = 2
          /\ <<i, j>> \notin DOMAIN R.elements

\* C8: add, subtract and multiply leave every attribute of self and of
\* other as it was before the call, whether the call returns or raises,
\* also when self and other are the same object.
C8_OperandsReadOnly ==
    [][call'.op \in ArithOps => (A' = A /\ B' = B)]_vars

(***************************************************************************)
(* The multiplication example: matrix3 (3 x 4) and matrix4 (4 x 2) of      *)
(* create_example_files, filled by its set calls taken in any order, and   *)
(* matrix3.multiply(matrix4).                                              *)
(***************************************************************************)
Matrix3Entries ==
    {<<0, 0, 2>>, <<0, 2, 3>>, <<1, 1, 5>>, <<1, 3, 1>>, <<2, 0, 4>>, <<2, 2, 6>>}

Matrix4Entries ==
    {<<0, 0, 1>>, <<0, 1, 2>>, <<1, 0, 3>>, <<2, 1, 4>>, <<3, 0, 5>>}

InitExample ==
    /\ A = SparseMatrix(3, 4).self
    /\ B = SparseMatrix(4, 2).self
    /\ R = NoMatrix
    /\ call = NoCall
    /\ exc = "none"
    /\ ret = None
    /\ lastSet = EmptyDict
    /\ fs = NoFile

SetMatrix3 ==
    \E e \in Matrix3Entries :
       /\ \E r \in {set(A, e[1], e[2], e[3])} : A' = r.self /\ exc' = r.exc
       /\ call' = [op |-> "set", self |-> "A"]
       /\ R' = NoMatrix
       /\ UNCHANGED <<B, ret, lastSet, fs>>

SetMatrix4 ==
    \E e \in Matrix4Entries :
       /\ \E r \in {set(B, e[1], e[2], e[3])} : B' = r.self /\ exc' = r.exc
       /\ call' = [op |-> "set", self |-> "B"]
       /\ R' = NoMatrix
       /\ UNCHANGED <<A, ret, lastSet, fs>>

MultiplyExample == \E elapsed \in Elapsed : CallAB("multiply", elapsed)

NextExample == SetMatrix3 \/ SetMatrix4 \/ MultiplyExample

SpecExample == InitExample /\ [][NextExample]_vars

\* The dict holding a set of (row, col, value) entries.
DictOf(entries) ==
    [k \in {<<e[1], e[2]>> : e \in entries} |->
        (CHOOSE e \in entries : e[1] = k[1] /\ e[2] = k[2])[3]]

\* matrix3.multiply(matrix4) has returned, both matrices complete.
ExampleMultiplied ==
    /\ call.op = "multiply" /\ exc = "none"
    /\ A.elements = DictOf(Matrix3Entries)
    /\ B.elements = DictOf(Matrix4Entries)

\* C6 as stated: the product of the 3 x 4 matrix C and the 4 x 2 matrix D
\* is the 3 x 2 matrix with exactly the entries (0,0,2), (0,1,16),
\* (1,1,20), (2,0,8), (2,1,32).
C6_ProductAsStated ==
    ExampleMultiplied =>
       /\ R.rows = 3 /\ R.cols = 2
       /\ R.elements = DictOf({<<0, 0, 2>>, <<0, 1, 16>>, <<1, 1, 20>>,
                               <<2, 0, 8>>, <<2, 1, 32>>})

\* C6 as amended: the product of C and D is the 3 x 2 matrix with exactly
\* the entries (0,0,2), (0,1,16), (1,0,20), (2,0,4), (2,1,32), which is
\* also the brute-force dense product.
C6_Product ==
    ExampleMultiplied =>
       /\ R.rows = 3 /\ R.cols = 2
       /\ R.elements = DictOf({<<0, 0, 2>>, <<0, 1, 16>>, <<1, 0, 20>>,
                               <<2, 0, 4>>, <<2, 1, 32>>})
       /\ \A i \in 0 .. 2, j \in 0 .. 1 :
             get(R, i, j).val = DenseDot(A, B, i, j, 4)

C6_Witness == ExampleMultiplied /\ R.num_nonzero = 5

(***************************************************************************)
(* The file machine: a matrix A filled by in-bounds set calls, a path that *)
(* names a text file, a directory, an unreadable file or nothing, and      *)
(* to_file and from_file on that path.                                     *)
(***************************************************************************)
TextFile(tag, lines) == [kind |-> "file", tag |-> tag, lines |-> lines]
\* no line at all:  (empty)
FileEmpty ==
    TextFile("empty",
      << >>)

\* one non-blank line:  rows=2\n | \n
FileOneLine ==
    TextFile("one_line",
      <<<<"r", "o", "w", "s", "=", "2", "\n">>,
      <<"\n">>>>)

\* the first line is not rows=...:  cols=2\n | rows=2\n
FileFirstNotRows ==
    TextFile("first_not_rows",
      <<<<"c", "o", "l", "s", "=", "2", "\n">>,
      <<"r", "o", "w", "s", "=", "2", "\n">>>>)

\* the second line is not cols=...:  rows=2\n | rows=2\n
FileSecondNotCols ==
    TextFile("second_not_cols",
      <<<<"r", "o", "w", "s", "=", "2", "\n">>,
      <<"r", "o", "w", "s", "=", "2", "\n">>>>)

\* a header value that is no integer:  rows=x\n | cols=2\n
FileHeaderNotInt ==
    TextFile("header_not_int",
      <<<<"r", "o", "w", "s", "=", "x", "\n">>,
      <<"c", "o", "l", "s", "=", "2", "\n">>>>)

\* a header value of 0:  rows=0\n | cols=2\n
FileHeaderZero ==
    TextFile("header_zero",
      <<<<"r", "o", "w", "s", "=", "0", "\n">>,
      <<"c", "o", "l", "s", "=", "2", "\n">>>>)

\* a negative header value:  rows=2\n | cols=-1\n
FileHeaderNegative ==
    TextFile("header_negative",
      <<<<"r", "o", "w", "s", "=", "2", "\n">>,
      <<"c", "o", "l", "s", "=", "-", "1", "\n">>>>)

\* an entry line without parentheses:  rows=2\n | cols=2\n | 0, 0, 1\n
FileNoParens ==
    TextFile("no_parens",
      <<<<"r", "o", "w", "s", "=", "2", "\n">>,
      <<"c", "o", "l", "s", "=", "2", "\n">>,
      <<"0", ",", " ", "0", ",", " ", "1", "\n">>>>)

\* an entry line with two fields:  rows=2\n | cols=2\n | (0, 0)\n
FileTwoFields ==
    TextFile("two_fields",
      <<<<"r", "o", "w", "s", "=", "2", "\n">>,
      <<"c", "o", "l", "s", "=", "2", "\n">>,
      <<"(", "0", ",", " ", "0", ")", "\n">>>>)

\* an entry line with four fields:  rows=2\n | cols=2\n | (0, 0, 1, 1)\n
FileFourFields ==
    TextFile("four_fields",
      <<<<"r", "o", "w", "s", "=", "2", "\n">>,
      <<"c", "o", "l", "s", "=", "2", "\n">>,
      <<"(", "0", ",", " ", "0", ",", " ", "1", ",", " ", "1", ")", "\n">>>>)

\* a field that is no integer:  rows=2\n | cols=2\n | (0, a, 1)\n
FileFieldNotInt ==
    TextFile("field_not_int",
      <<<<"r", "o", "w", "s", "=", "2", "\n">>,
      <<"c", "o", "l", "s", "=", "2", "\n">>,
      <<"(", "0", ",", " ", "a", ",", " ", "1", ")", "\n">>>>)

\* a row beyond the declared rows:  rows=2\n | cols=2\n | (0, 1, 1)\n | (2, 0, 1)\n
FileOutOfRange ==
    TextFile("out_of_range",
      <<<<"r", "o", "w", "s", "=", "2", "\n">>,
      <<"c", "o", "l", "s", "=", "2", "\n">>,
      <<"(", "0", ",", " ", "1", ",", " ", "1", ")", "\n">>,
      <<"(", "2", ",", " ", "0", ",", " ", "1", ")", "\n">>>>)

\* a column beyond the declared cols, value 0:  rows=2\n | cols=2\n | (0, 2, 0)\n
FileOutOfRangeZero ==
    TextFile("out_of_range_zero",
      <<<<"r", "o", "w", "s", "=", "2", "\n">>,
      <<"c", "o", "l", "s", "=", "2", "\n">>,
      <<"(", "0", ",", " ", "2", ",", " ", "0", ")", "\n">>>>)

\* a negative row:  rows=2\n | cols=2\n | (-1, 0, 1)\n
FileNegativeCoordinate ==
    TextFile("negative_coordinate",
      <<<<"r", "o", "w", "s", "=", "2", "\n">>,
      <<"c", "o", "l", "s", "=", "2", "\n">>,
      <<"(", "-", "1", ",", " ", "0", ",", " ", "1", ")", "\n">>>>)

\* a well-formed file: a blank line, padded fields, a repeated coordinate, a 0 value:  rows=2\n | cols=12\n | \n |  ( 0 ,1, -1 ) \n | (0, 1, 2)\n | (1,1,0)\n | (1, 10, +7)\n
FileValid ==
    TextFile("valid",
      <<<<"r", "o", "w", "s", "=", "2", "\n">>,
      <<"c", "o", "l", "s", "=", "1", "2", "\n">>,
      <<"\n">>,
      <<" ", "(", " ", "0", " ", ",", "1", ",", " ", "-", "1", " ", ")", " ", "\n">>,
      <<"(", "0", ",", " ", "1", ",", " ", "2", ")", "\n">>,
      <<"(", "1", ",", "1", ",", "0", ")", "\n">>,
      <<"(", "1", ",", " ", "1", "0", ",", " ", "+", "7", ")", "\n">>>>)

\* a header line with a second '=':  rows=3=4\n | cols=2\n | (2, 1, 5)\n
FileHeaderTwoEquals ==
    TextFile("header_two_equals",
      <<<<"r", "o", "w", "s", "=", "3", "=", "4", "\n">>,
      <<"c", "o", "l", "s", "=", "2", "\n">>,
      <<"(", "2", ",", " ", "1", ",", " ", "5", ")", "\n">>>>)

\* The files that are not in the format, one for each way of not being so.
MalformedFiles ==
    {FileEmpty, FileOneLine, FileFirstNotRows,
     FileSecondNotCols, FileHeaderNotInt, FileHeaderZero,
     FileHeaderNegative, FileNoParens, FileTwoFields,
     FileFourFields, FileFieldNotInt, FileOutOfRange,
     FileOutOfRangeZero, FileNegativeCoordinate}

\* What the path may name before the first call.
InitialFiles ==
    MalformedFiles \cup {FileValid, FileHeaderTwoEquals}
    \cup {[kind |-> "missing"], [kind |-> "denied"], [kind |-> "directory"]}

\* The shapes and the values of the file machine's matrix.
FileShapes == {<<2, 2>>, <<1, WideCols>>}

FileValues == {-12, 0, 3}

InitFile ==
    /\ \E s \in FileShapes : A = SparseMatrix(s[1], s[2]).self
    /\ B = NoMatrix
    /\ R = NoMatrix
    /\ call = NoCall
    /\ exc = "none"
    /\ ret = None
    /\ lastSet = EmptyDict
    /\ fs \in InitialFiles

\* The orders in which a dict may yield its items: every enumeration of them.
ItemOrders(m) ==
    LET all == ElementEntries(m)
    IN  {f \in [1 .. Cardinality(all) -> all] :
           \A i, j \in 1 .. Cardinality(all) : i # j => f[i] # f[j]}

\* A.set(row, col, value), before any file call.
FileSet ==
    /\ call.op \in {"new", "set"}
    /\ \E k \in Cells(A), value \in FileValues :
          \E r \in {set(A, k[1], k[2], value)} : A' = r.self /\ exc' = r.exc
    /\ call' = [op |-> "set", self |-> "A"]
    /\ UNCHANGED <<B, R, ret, lastSet, fs>>

\* A.to_file(path)
ToFile ==
    /\ call.op \in {"new", "set", "to_file"}
    /\ \E items \in ItemOrders(A) :
          \E r \in {to_file(A, fs, items)} : fs' = r.fs /\ exc' = r.exc
    /\ call' = [op |-> "to_file"]
    /\ UNCHANGED <<A, B, R, ret, lastSet>>

\* R = SparseMatrix.from_file(path).  call.written is history: the file is
\* the one the to_file call just before wrote.
FromFile ==
    /\ call.op \in {"new", "set", "to_file"}
    /\ \E r \in {from_file(fs)} :
          /\ exc' = r.exc
          /\ R' = IF r.exc = "none" THEN r.result ELSE NoMatrix
    /\ call' = [op |-> "from_file",
                written |-> (call.op = "to_file" /\ exc = "none")]
    /\ UNCHANGED <<A, B, ret, lastSet, fs>>

NextFile == FileSet \/ ToFile \/ FromFile

SpecFile == InitFile /\ [][NextFile]_vars

(***************************************************************************)
(* Properties of the file machine.                                         *)
(***************************************************************************)
\* The same shape and the same content in all three mappings and the count.
SameContent(m, n) ==
    /\ m.rows = n.rows /\ m.cols = n.cols
    /\ m.elements = n.elements
    /\ m.row_map = n.row_map /\ m.col_map = n.col_map
    /\ m.num_nonzero = n.num_nonzero

\* The header line holds the key, "=", and a text that int reads as n.
IsHeader(line, key, n) ==
    /\ StartsWith(line, key \o <<"=">>)
    /\ Len(Split(Strip(line), "=")) = 2
    /\ int(Split(Strip(line), "=")[2]) = [exc |-> "none", val |-> n]

\* C7: to_file writes the rows= line, the cols= line, then one line for
\* each non-zero entry in strictly ascending (row, col) order, the same
\* text whatever order the dict yields its items in; and from_file of that
\* text returns a matrix with A's rows, cols, elements, row_map, col_map and
\* num_nonzero.
C7_RoundTrip ==
    /\ (call.op = "to_file" /\ exc = "none") =>
          /\ fs.kind = "file"
          /\ Len(fs.lines) = 2 + Cardinality(DOMAIN A.elements)
          /\ IsHeader(fs.lines[1], <<"r", "o", "w", "s">>, A.rows)
          /\ IsHeader(fs.lines[2], <<"c", "o", "l", "s">>, A.cols)
          /\ \A i \in 3 .. Len(fs.lines) :
                LET e == ParseEntry(Strip(fs.lines[i]))
                IN  e.exc = "none" /\ <<e.r, e.c, e.v>> \in ElementEntries(A)
          /\ \A i \in 3 .. Len(fs.lines) - 1 :
                LET e == ParseEntry(Strip(fs.lines[i]))
                    f == ParseEntry(Strip(fs.lines[i + 1]))
                IN  e.r < f.r \/ (e.r = f.r /\ e.c < f.c)
          /\ \A items \in ItemOrders(A) : FileLines(A, items) = fs.lines
          /\ from_file(fs).exc = "none"
          /\ SameContent(from_file(fs).result, A)
    /\ (call.op = "from_file" /\ call.written) =>
          exc = "none" /\ SameContent(R, A) /\ I1(R) /\ I2(R) /\ I3(R)

\* from_file has read back a written 2 x 2 matrix with four entries, one
\* of them negative.
C7_Witness ==
    /\ call.op = "from_file" /\ call.written /\ exc = "none"
    /\ A.num_nonzero = 4 /\ A.elements[<<1, 0>>] = -12
    /\ R.elements = A.elements

\* C9: from_file on a file that can be opened raises ValueError and
\* returns no matrix when the file has fewer than two non-blank lines, a
\* first line that is not rows=..., a second line that is not cols=..., a
\* header value that is not a positive integer, an entry line without the
\* parentheses, with two or four fields, or with a field that is no
\* integer, or an entry whose coordinate is outside the declared
\* dimensions, also when that entry's value is 0.
C9_MalformedInput ==
    (call.op = "from_file" /\ fs \in MalformedFiles) =>
       exc = "ValueError" /\ R = NoMatrix

\* from_file has rejected the file whose entry (0, 2, 0) lies outside the
\* declared 2 x 2.
C9_Witness ==
    /\ call.op = "from_file" /\ fs = FileOutOfRangeZero
    /\ exc = "ValueError" /\ R = NoMatrix

OSErrors == {"FileNotFoundError", "PermissionError", "IsADirectoryError"}

\* C10: when the file cannot be opened, from_file raises the error of the
\* open (FileNotFoundError or another OSError) and never ValueError,
\* whatever the cause; to_file raises the error of its open as it is.
C10_OpenFailure ==
    /\ (call.op = "from_file" /\ OpenRead(fs) # "none") =>
          exc \in OSErrors /\ exc # "ValueError"
    /\ (call.op = "to_file" /\ OpenWrite(fs) # "none") =>
          exc = OpenWrite(fs)

\* C11: from_file returns a matrix only when the first non-blank line is
\* one rows=<positive integer> pair and the second one cols=<positive
\* integer> pair and nothing more; a header line with text after a second
\* '=' (rows=3=4) raises ValueError instead of being read as its first
\* value.
C11_HeaderExactlyOnePair ==
    /\ (call.op = "from_file" /\ exc = "none") =>
          /\ fs.kind = "file"
          /\ Len(NonBlankLines(fs.lines)) >= 2
          /\ IsHeader(NonBlankLines(fs.lines)[1], <<"r", "o", "w", "s">>, R.rows)
          /\ IsHeader(NonBlankLines(fs.lines)[2], <<"c", "o", "l", "s">>, R.cols)
          /\ R.rows > 0 /\ R.cols > 0
    /\ (call.op = "from_file" /\ fs = FileHeaderTwoEquals) =>
          exc = "ValueError" /\ R = NoMatrix

(***************************************************************************)
(* SparseMatrix.transpose and SparseMatrix.density                         *)
(***************************************************************************)
\* for (r, c), v in self.elements.items(): result.set(c, r, v)
RECURSIVE TransposeEntries(_, _, _)
TransposeEntries(result, src, keys) ==
    IF keys = {} THEN [exc |-> "none", self |-> result]
    ELSE Only({ Only({ IF r.exc # "none" THEN r
                       ELSE TransposeEntries(r.self, src, rest) :
                       r \in {set(result, k[2], k[1], src[k])},
                       rest \in {keys \ {k}} }) :
                k \in {CHOOSE x \in keys : TRUE} })

\* result = SparseMatrix(self.cols, self.rows), filled by the loop.
transpose(self) ==
    Only({ IF r.exc # "none" THEN [exc |-> r.exc, self |-> self]
           ELSE [exc |-> "none", self |-> self, result |-> r.self] :
           r \in {TransposeEntries(Fields(self.cols, self.rows),
                                   self.elements, DOMAIN self.elements)} })

\* The float a / b as the pair of its numerator and denominator; 0.0 is
\* 0 / 1.  The rounding of the division is not modelled.
Quotient(a, b) == [num |-> a, den |-> b]

\* total_cells == 0 returns 0.0 before the division.
density(self) ==
    LET total_cells == self.rows * self.cols
    IN  IF total_cells = 0 THEN Quotient(0, 1)
        ELSE Quotient(self.num_nonzero, total_cells)

(***************************************************************************)
(* The count machine: A is constructed empty or read by from_file, A and B *)
(* are changed by set calls, in bounds or not, R is what add, subtract,    *)
(* multiply or transpose returned, and density is called on any of them.   *)
(***************************************************************************)
\* The shapes A and B are constructed with.
CountShapes ==
    { <<<<1, 2>>, <<2, 1>>>>,
      <<<<1, WideCols>>, <<1, WideCols>>>> }

\* a file that stores, overwrites, sets an absent entry to 0, stores and
\* deletes:  rows=1\n | cols=2\n | (0, 1, 1)\n | (0, 1, -1)\n | (0, 0, 0)\n |
\* (0, 0, 1)\n | (0, 0, 0)\n
FileRepeats ==
    TextFile("repeats",
      <<<<"r", "o", "w", "s", "=", "1", "\n">>,
      <<"c", "o", "l", "s", "=", "2", "\n">>,
      <<"(", "0", ",", " ", "1", ",", " ", "1", ")", "\n">>,
      <<"(", "0", ",", " ", "1", ",", " ", "-", "1", ")", "\n">>,
      <<"(", "0", ",", " ", "0", ",", " ", "0", ")", "\n">>,
      <<"(", "0", ",", " ", "0", ",", " ", "1", ")", "\n">>,
      <<"(", "0", ",", " ", "0", ",", " ", "0", ")", "\n">>>>)

\* What the path names: a file in the format with repeated coordinates and
\* zero values, or a file with an entry out of range.
CountFiles == {FileRepeats, FileOutOfRange}

\* The row (column) arguments of the count machine: two that may be in
\* bounds and the first one above.
CountIndices(n) == {0, 1, n}

InitCount ==
    /\ \E s \in CountShapes :
          /\ A = SparseMatrix(s[1][1], s[1][2]).self
          /\ B = SparseMatrix(s[2][1], s[2][2]).self
    /\ R = NoMatrix
    /\ call = NoCall
    /\ exc = "none"
    /\ ret = None
    /\ lastSet = EmptyDict
    /\ fs \in CountFiles

\* The record of a set call.  old and before are history: the value stored
\* at the coordinate (0 for none) and num_nonzero, both before the call.
SetRecord(name, m, row, col, value) ==
    [op |-> "set", self |-> name, value |-> value,
     old |-> DictGet(m.elements, <<row, col>>, 0), before |-> m.num_nonzero]

\* A.set(row, col, value)
CountSetA ==
    \E row \in CountIndices(A.rows), col \in CountIndices(A.cols),
       value \in Values :
       /\ \E r \in {set(A, row, col, value)} : A' = r.self /\ exc' = r.exc
       /\ call' = SetRecord("A", A, row, col, value)
       /\ R' = NoMatrix
       /\ ret' = None
       /\ UNCHANGED <<B, lastSet, fs>>

\* B.set(row, col, value)
CountSetB ==
    \E row \in CountIndices(B.rows), col \in CountIndices(B.cols),
       value \in Values :
       /\ \E r \in {set(B, row, col, value)} : B' = r.self /\ exc' = r.exc
       /\ call' = SetRecord("B", B, row, col, value)
       /\ R' = NoMatrix
       /\ ret' = None
       /\ UNCHANGED <<A, lastSet, fs>>

\* A = SparseMatrix.from_file(path); an exception leaves A bound as it was.
Load ==
    /\ \E r \in {from_file(fs)} :
          /\ exc' = r.exc
          /\ A' = IF r.exc = "none" THEN r.result ELSE A
    /\ call' = [op |-> "from_file"]
    /\ R' = NoMatrix
    /\ ret' = None
    /\ UNCHANGED <<B, lastSet, fs>>

\* R = A.transpose()
Transpose ==
    /\ \E r \in {transpose(A)} :
          /\ A' = r.self
          /\ exc' = r.exc
          /\ R' = IF r.exc = "none" THEN r.result ELSE NoMatrix
    /\ call' = [op |-> "transpose", self |-> "A"]
    /\ ret' = None
    /\ UNCHANGED <<B, lastSet, fs>>

\* The matrix a name is bound to.
Bound(name) ==
    CASE name = "A" -> A
      [] name = "B" -> B
      [] name = "R" -> R

\* A.op(B) and A.op(A) for op one of add, subtract and multiply.
CountArith ==
    \E op \in ArithOps, elapsed \in Elapsed, other \in {"A", "B"} :
       \E r \in {Method(op, A, Bound(other), elapsed)} :
          /\ A' = r.self
          /\ exc' = r.exc
          /\ R' = IF r.exc = "none" THEN r.result ELSE NoMatrix
          /\ call' = [op |-> op, self |-> "A", other |-> other]
          /\ ret' = None
          /\ UNCHANGED <<B, lastSet, fs>>

\* m.density() for m one of A, B and, when there is one, R.
Density ==
    \E name \in {"A", "B", "R"} :
       /\ Bound(name) # NoMatrix
       /\ ret' = <<density(Bound(name))>>
       /\ exc' = "none"
       /\ call' = [op |-> "density", self |-> name]
       /\ UNCHANGED <<A, B, R, lastSet, fs>>

NextCount ==
    CountSetA \/ CountSetB \/ Load \/ CountArith \/ Transpose \/ Density

SpecCount == InitCount /\ [][NextCount]_vars

(***************************************************************************)
(* Properties of the count machine.                                        *)
(***************************************************************************)
\* The matrices there are: A, B and, when a call returned one, R.
Matrices == {A, B} \cup (IF R = NoMatrix THEN {} ELSE {R})

\* num_nonzero counts the keys of elements and lies between 0 and the
\* number of cells, which is not 0; density is the one over the other.
Counted(m) ==
    /\ m.num_nonzero = Cardinality(DOMAIN m.elements)
    /\ 0 <= m.num_nonzero /\ m.num_nonzero <= m.rows * m.cols
    /\ m.rows * m.cols # 0
    /\ density(m).num = m.num_nonzero /\ density(m).den = m.rows * m.cols

\* What a set call does to the count: + 1 for a value other than 0 where
\* nothing was stored, - 1 for 0 where something was, nothing otherwise,
\* and nothing when the call raised.
SetDelta ==
    IF exc # "none" THEN 0
    ELSE IF call.old = 0 /\ call.value # 0 THEN 1
    ELSE IF call.old # 0 /\ call.value = 0 THEN 0 - 1
    ELSE 0

\* C12: in every matrix, whether built by set calls, read by from_file
\* from a file with repeated coordinates and zero values, or returned by
\* add, subtract, multiply or transpose, num_nonzero is the number of keys
\* of elements, so 0 <= num_nonzero <= rows * cols, and density() returns
\* num_nonzero / (rows * cols) with rows * cols not 0; a set call that
\* overwrites a stored entry leaves the count as it was, one that stores a
\* new entry adds 1, one that deletes a stored entry subtracts 1, and one
\* that sets an absent entry to 0 changes nothing.
C12_CountInvariant ==
    /\ \A m \in Matrices : Counted(m)
    /\ call.op = "density" =>
          /\ ret = <<[num |-> Bound(call.self).num_nonzero,
                      den |-> Bound(call.self).rows * Bound(call.self).cols]>>
          /\ ret[1].den # 0
          /\ 0 <= ret[1].num /\ ret[1].num <= ret[1].den
    /\ call.op = "set" =>
          Bound(call.self).num_nonzero = call.before + SetDelta

\* density has been called on the transpose of the matrix read from the
\* file with repeated coordinates, after an entry was added to it.
C12_Witness ==
    /\ call.op = "density" /\ call.self = "R"
    /\ fs = FileRepeats
    /\ A.elements = (<<0, 0>> :> 1) @@ (<<0, 1>> :> -1)
    /\ R.rows = 2 /\ R.cols = 1
    /\ R.elements = (<<0, 0>> :> 1) @@ (<<1, 0>> :> -1)
    /\ ret = <<[num |-> 2, den |-> 2]>>

====
